---- MODULE Spec2Model ----
(***************************************************************************)
(* Heartbeat animation on the 8x12 LED matrix                              *)
(* (agosarduino/MatrixAnimation.cpp, MatrixAnimation.h).                   *)
(*                                                                         *)
(* The module has two entry points, initMatrix and updateMatrixAnimation.  *)
(* The display driver (ArduinoLEDMatrix) and delay() are external; the     *)
(* model keeps what the module hands to them: every call made on the       *)
(* driver and every delay is recorded, in order, with its arguments.       *)
(* updateMatrixAnimation blocks in delay(), so the display is observable   *)
(* between its statements: each statement is one step, pc is the line of   *)
(* the statement to execute next.                                          *)
(***************************************************************************)
EXTENDS Integers, Sequences, FiniteSets

\* Number of entry-point invocations the caller makes in one run.
MaxCalls == 4

\* ------------------------------------------------------------------------
\* Data: frames and timings
\* ------------------------------------------------------------------------

\* Declared dimensions of every frame: byte frame_x[8][12].
FrameRows == 8
FrameCols == 12

\* Values a byte holds.
ByteMod == 256

\* C++ aggregate initialisation of byte a[rows][cols] = { {..}, {..} }:
\* listed elements are stored (narrowed to a byte), every element the
\* initialiser does not list is zero.
AggregateInit(init, rows, cols) ==
  [r \in 1..rows |->
    [c \in 1..cols |->
      IF r <= Len(init) /\ c <= Len(init[r]) THEN init[r][c] % ByteMod ELSE 0]]

frame_full ==
  AggregateInit(<< << 0, 0, 1, 1, 0, 0, 0, 1, 1, 0, 0, 0 >>,
                   << 0, 1, 1, 1, 1, 0, 1, 1, 1, 1, 0, 0 >>,
                   << 0, 1, 1, 1, 1, 1, 1, 1, 1, 1, 0, 0 >>,
                   << 0, 0, 1, 1, 1, 1, 1, 1, 1, 0, 0, 0 >>,
                   << 0, 0, 0, 1, 1, 1, 1, 1, 0, 0, 0, 0 >>,
                   << 0, 0, 0, 0, 1, 1, 1, 0, 0, 0, 0, 0 >>,
                   << 0, 0, 0, 0, 0, 1, 0, 0, 0, 0, 0, 0 >>,
                   << 0, 0, 0, 0, 0, 0, 0, 0, 0, 0, 0, 0 >> >>,
                FrameRows, FrameCols)

frame_med_bad ==
  AggregateInit(<< << 0, 0, 0, 1, 0, 0, 0, 1, 0, 0, 0, 0 >>,
                   << 0, 0, 1, 1, 1, 0, 1, 1, 1, 0, 0, 0 >>,
                   << 0, 0, 1, 1, 1, 1, 1, 1, 1, 0, 0, 0 >>,
                   << 0, 0, 0, 1, 1, 1, 1, 1, 0, 0, 0, 0 >>,
                   << 0, 0, 0, 0, 1, 11, 1, 0, 0, 0, 0, 0 >>,
                   << 0, 0, 0, 0, 0, 1, 0, 0, 0, 0, 0, 0 >>,
                   << 0, 0, 0, 0, 0, 0, 0, 0, 0, 0, 0, 0 >>,
                   << 0, 0, 0, 0, 0, 0, 0, 0, 0, 0, 0, 0 >> >>,
                FrameRows, FrameCols)

frame_med ==
  AggregateInit(<< << 0, 0, 0, 1, 0, 0, 0, 1, 0, 0, 0, 0 >>,
                   << 0, 0, 1, 1, 1, 0, 1, 1, 1, 0, 0, 0 >>,
                   << 0, 0, 1, 1, 1, 1, 1, 1, 1, 0, 0, 0 >>,
                   << 0, 0, 0, 1, 1, 1, 1, 1, 0, 0, 0, 0 >>,
                   << 0, 0, 0, 0, 1, 1, 1, 0, 0, 0, 0, 0 >>,
                   << 0, 0, 0, 0, 0, 1, 0, 0, 0, 0, 0, 0 >>,
                   << 0, 0, 0, 0, 0, 0, 0, 0, 0, 0, 0, 0 >>,
                   << 0, 0, 0, 0, 0, 0, 0, 0, 0, 0, 0, 0 >> >>,
                FrameRows, FrameCols)

frame_small ==
  AggregateInit(<< << 0, 0, 0, 0, 0, 0, 0, 0, 0, 0, 0, 0 >>,
                   << 0, 0, 0, 1, 0, 0, 0, 1, 0, 0, 0, 0 >>,
                   << 0, 0, 0, 1, 1, 0, 1, 1, 0, 0, 0, 0 >>,
                   << 0, 0, 0, 0, 1, 1, 1, 0, 0, 0, 0, 0 >>,
                   << 0, 0, 0, 0, 0, 1, 0, 0, 0, 0, 0, 0 >>,
                   << 0, 0, 0, 0, 0, 0, 0, 0, 0, 0, 0, 0 >>,
                   << 0, 0, 0, 0, 0, 0, 0, 0, 0, 0, 0, 0 >>,
                   << 0, 0, 0, 0, 0, 0, 0, 0, 0, 0, 0, 0 >> >>,
                FrameRows, FrameCols)

\* A slip in the initialiser: the one listed element is 1 instead of 0.
frame_off_bad == AggregateInit(<< << 1 >> >>, FrameRows, FrameCols)

frame_off == AggregateInit(<< << 0 >> >>, FrameRows, FrameCols)

\* Timings (ms)
SHORT == 100
SHORT_GAP == 100
LONG_GAP == 700

FrameNames == {"frame_full", "frame_med", "frame_small", "frame_off"}

\* ------------------------------------------------------------------------
\* State
\* ------------------------------------------------------------------------
VARIABLES
  frames,   \* the four global (non-const) frame arrays, by name
  matrix,   \* the driver object: begun = number of begin() calls made on it,
            \* bitmap = name of the frame last handed to renderBitmap,
            \* pixels = the cells handed over with it
  pc,       \* 0: no entry point is executing; otherwise the source line of
            \* the statement of updateMatrixAnimation to execute next
  calls     \* entry-point invocations so far, in order; for each one its
            \* name and the driver/delay calls it has made so far

vars == <<frames, matrix, pc, calls>>

NoBitmap == "none"

Init ==
  /\ frames = [frame_full  |-> frame_full,
               frame_med   |-> frame_med,
               frame_small |-> frame_small,
               frame_off   |-> frame_off]
  /\ matrix = [begun |-> 0, bitmap |-> NoBitmap, pixels |-> << >>]
  /\ pc = 0
  /\ calls = << >>

\* ------------------------------------------------------------------------
\* Recording
\* ------------------------------------------------------------------------

\* The caller enters entry point fn: a new invocation with nothing recorded.
Enter(cs, fn) == Append(cs, [fn |-> fn, events |-> << >>])

\* The executing (last) invocation records event e.
Record(cs, e) ==
  [cs EXCEPT ![Len(cs)].events = Append(cs[Len(cs)].events, e)]

\* ------------------------------------------------------------------------
\* Statements
\* ------------------------------------------------------------------------

\* matrix.begin()
Begin(cs) ==
  /\ matrix' = [matrix EXCEPT !.begun = @ + 1]
  /\ calls' = Record(cs, [op |-> "begin"])

\* matrix.renderBitmap(<name>, rows, cols): the driver is handed the frame
\* and the two counts and shows it at once.  The frame is only read.
RenderBitmap(cs, name, rows, cols) ==
  /\ matrix' = [matrix EXCEPT !.bitmap = name, !.pixels = frames[name]]
  /\ calls' = Record(cs, [op |-> "renderBitmap", frame |-> name,
                          rows |-> rows, cols |-> cols])
  /\ UNCHANGED frames

\* delay(ms): blocks the caller; nothing but time changes.
Delay(cs, ms) ==
  /\ calls' = Record(cs, [op |-> "delay", ms |-> ms])
  /\ UNCHANGED <<frames, matrix>>

\* A slip: the driver is started twice by one initMatrix().
initMatrix_twice ==
  /\ pc = 0
  /\ Len(calls) < MaxCalls
  /\ matrix' = [matrix EXCEPT !.begun = @ + 2]
  /\ calls' = Record(Record(Enter(calls, "initMatrix"), [op |-> "begin"]),
                     [op |-> "begin"])
  /\ UNCHANGED <<frames, pc>>

\* void initMatrix() { matrix.begin(); }
\* Callable whenever no entry point is executing (single-threaded caller).
initMatrix ==
  /\ pc = 0
  /\ Len(calls) < MaxCalls
  /\ Begin(Enter(calls, "initMatrix"))
  /\ UNCHANGED <<frames, pc>>

\* updateMatrixAnimation(), statement by statement.
\* line 52: entry and matrix.renderBitmap(frame_small, 8, 12)
Stmt52 ==
  /\ pc = 0
  /\ Len(calls) < MaxCalls
  /\ RenderBitmap(Enter(calls, "updateMatrixAnimation"), "frame_small", 8, 12)
  /\ pc' = 53

\* A slip: the hold grows with every entry-point call already made.
Stmt53_drift ==
  /\ pc = 53
  /\ Delay(calls, SHORT + (Len(calls) - 1))
  /\ pc' = 54

\* line 53: delay(SHORT)
Stmt53 ==
  /\ pc = 53
  /\ Delay(calls, SHORT)
  /\ pc' = 54

\* A slip: the frame is patched in place before it is shown.
Stmt54_writes ==
  /\ pc = 54
  /\ frames' = [frames EXCEPT !.frame_med[1][1] = 1]
  /\ matrix' = [matrix EXCEPT !.bitmap = "frame_med",
                              !.pixels = frames'.frame_med]
  /\ calls' = Record(calls, [op |-> "renderBitmap", frame |-> "frame_med",
                             rows |-> 8, cols |-> 12])
  /\ pc' = 55

\* line 54: matrix.renderBitmap(frame_med, 8, 12)
Stmt54 ==
  /\ pc = 54
  /\ RenderBitmap(calls, "frame_med", 8, 12)
  /\ pc' = 55

\* A slip: the wrong timing constant.
Stmt55_long ==
  /\ pc = 55
  /\ Delay(calls, LONG_GAP)
  /\ pc' = 56

\* line 55: delay(SHORT_GAP)
Stmt55 ==
  /\ pc = 55
  /\ Delay(calls, SHORT_GAP)
  /\ pc' = 56

\* A slip: row and column counts swapped.
Stmt56_swapped ==
  /\ pc = 56
  /\ RenderBitmap(calls, "frame_full", 12, 8)
  /\ pc' = 57

\* line 56: matrix.renderBitmap(frame_full, 8, 12)
Stmt56 ==
  /\ pc = 56
  /\ RenderBitmap(calls, "frame_full", 8, 12)
  /\ pc' = 57

\* line 57: delay(SHORT)
Stmt57 ==
  /\ pc = 57
  /\ Delay(calls, SHORT)
  /\ pc' = 58

\* A slip: the heart shrinks straight to small.
Stmt58_small ==
  /\ pc = 58
  /\ RenderBitmap(calls, "frame_small", 8, 12)
  /\ pc' = 59

\* line 58: matrix.renderBitmap(frame_med, 8, 12)
Stmt58 ==
  /\ pc = 58
  /\ RenderBitmap(calls, "frame_med", 8, 12)
  /\ pc' = 59

\* A slip: the long hold uses the short timing.
Stmt59_short ==
  /\ pc = 59
  /\ Delay(calls, SHORT)
  /\ pc' = 60

\* line 59: delay(LONG_GAP)
Stmt59 ==
  /\ pc = 59
  /\ Delay(calls, LONG_GAP)
  /\ pc' = 60

\* A slip: the display is left lit when the beat ends.
Stmt60_lit ==
  /\ pc = 60
  /\ RenderBitmap(calls, "frame_med", 8, 12)
  /\ pc' = 0

\* line 60: matrix.renderBitmap(frame_off, 8, 12), then return
Stmt60 ==
  /\ pc = 60
  /\ RenderBitmap(calls, "frame_off", 8, 12)
  /\ pc' = 0

updateMatrixAnimation ==
  \/ Stmt52
  \/ Stmt53
  \/ Stmt54
  \/ Stmt55
  \/ Stmt56
  \/ Stmt57
  \/ Stmt58
  \/ Stmt59
  \/ Stmt60

Next ==
  \/ initMatrix
  \/ updateMatrixAnimation

Spec == Init /\ [][Next]_vars

\* ------------------------------------------------------------------------
\* Observations on the recorded calls
\* ------------------------------------------------------------------------

RECURSIVE Flatten(_, _)
\* Events of invocations i.. of cs, in order.
Flatten(cs, i) ==
  IF i > Len(cs) THEN << >> ELSE cs[i].events \o Flatten(cs, i + 1)

\* Everything recorded so far.
Trace == Flatten(calls, 1)

IsBegin(e)  == e.op = "begin"
IsRender(e) == e.op = "renderBitmap"
IsDelay(e)  == e.op = "delay"
NotBegin(e) == e.op /= "begin"

\* Frames rendered / delays performed by an event sequence, in order.
FramesOf(es) == [i \in 1..Len(SelectSeq(es, IsRender)) |->
                   SelectSeq(es, IsRender)[i].frame]
DelaysOf(es) == [i \in 1..Len(SelectSeq(es, IsDelay)) |->
                   SelectSeq(es, IsDelay)[i].ms]

\* Invocation i has returned.
Returned(i) == i \in 1..Len(calls) /\ (i < Len(calls) \/ pc = 0)

UpdateIdx == {i \in 1..Len(calls) : calls[i].fn = "updateMatrixAnimation"}
InitIdx   == {i \in 1..Len(calls) : calls[i].fn = "initMatrix"}

RECURSIVE Repeat(_, _)
Repeat(s, n) == IF n = 0 THEN << >> ELSE s \o Repeat(s, n - 1)

\* ------------------------------------------------------------------------
\* Properties
\* ------------------------------------------------------------------------

\* C1: starting from an initialized driver, one invocation of
\* updateMatrixAnimation records exactly render(small), wait(100),
\* render(medium), wait(100), render(full), wait(100), render(medium),
\* wait(700), render(off): nine events, renders and waits alternating,
\* first and last a render, nothing else.
C1_SingleInvocationTrace ==
  (/\ Len(calls) = 2
   /\ calls[1].fn = "initMatrix"
   /\ calls[2].fn = "updateMatrixAnimation"
   /\ pc = 0)
  => /\ calls[2].events =
          << [op |-> "renderBitmap", frame |-> "frame_small", rows |-> 8, cols |-> 12],
             [op |-> "delay", ms |-> 100],
             [op |-> "renderBitmap", frame |-> "frame_med", rows |-> 8, cols |-> 12],
             [op |-> "delay", ms |-> 100],
             [op |-> "renderBitmap", frame |-> "frame_full", rows |-> 8, cols |-> 12],
             [op |-> "delay", ms |-> 100],
             [op |-> "renderBitmap", frame |-> "frame_med", rows |-> 8, cols |-> 12],
             [op |-> "delay", ms |-> 700],
             [op |-> "renderBitmap", frame |-> "frame_off", rows |-> 8, cols |-> 12] >>
     /\ Len(calls[2].events) = 9
     /\ \A i \in 1..9 : IF i % 2 = 1 THEN IsRender(calls[2].events[i])
                                     ELSE IsDelay(calls[2].events[i])
     /\ Trace = calls[1].events \o calls[2].events
     /\ Len(Trace) = 10

C1_Witness ==
  /\ Len(calls) = 2
  /\ calls[1].fn = "initMatrix"
  /\ calls[2].fn = "updateMatrixAnimation"
  /\ pc = 0
  /\ matrix.begun = 1

\* C2: the frames one invocation of updateMatrixAnimation hands to the
\* driver are small, medium, full, medium, off, in that order: five renders,
\* medium the only frame rendered twice, off last.
C2_FrameOrder ==
  \A i \in UpdateIdx : Returned(i) =>
    LET fs == FramesOf(calls[i].events) IN
      /\ fs = <<"frame_small", "frame_med", "frame_full", "frame_med", "frame_off">>
      /\ Len(fs) = 5
      /\ \A n \in FrameNames :
           Cardinality({k \in 1..Len(fs) : fs[k] = n}) =
             (IF n = "frame_med" THEN 2 ELSE 1)
      /\ fs[Len(fs)] = "frame_off"

C2_Witness ==
  /\ pc = 0
  /\ Cardinality(UpdateIdx) >= 2
  /\ \A i \in UpdateIdx : Len(FramesOf(calls[i].events)) = 5

\* C3: the delays between consecutive renders of one invocation are 100,
\* 100, 100, 700 ms (SHORT, SHORT_GAP, SHORT, LONG_GAP); no delay follows the
\* render of off: that render is the last thing the invocation does and the
\* invocation returns with it.
C3_DelaySequence ==
  /\ \A i \in UpdateIdx : Returned(i) =>
       LET es == calls[i].events IN
         /\ DelaysOf(es) = <<100, 100, 100, 700>>
         /\ DelaysOf(es) = <<SHORT, SHORT_GAP, SHORT, LONG_GAP>>
         /\ \A k \in 1..(Len(es) - 1) :
              IsRender(es[k]) => IsDelay(es[k + 1])
         /\ IsRender(es[Len(es)])
         /\ es[Len(es)].frame = "frame_off"
  /\ \A i \in UpdateIdx : ~Returned(i) =>
       \A k \in 1..Len(calls[i].events) :
         IsRender(calls[i].events[k]) => calls[i].events[k].frame /= "frame_off"

C3_Witness ==
  /\ pc = 0
  /\ Len(calls) >= 1
  /\ calls[Len(calls)].fn = "updateMatrixAnimation"
  /\ Len(DelaysOf(calls[Len(calls)].events)) = 4
  /\ matrix.bitmap = "frame_off"

\* C4: N back-to-back invocations of updateMatrixAnimation record the
\* single-invocation trace N times: every invocation's trace equals the
\* first one's (five renders, four delays), and the frames are what they
\* were before the first invocation.
C4_Idempotence ==
  pc = 0 =>
    LET N == Cardinality(UpdateIdx)
        first == CHOOSE i \in UpdateIdx : \A j \in UpdateIdx : i <= j
    IN
      /\ N = 0 => SelectSeq(Trace, NotBegin) = << >>
      /\ N > 0 =>
           /\ \A k \in UpdateIdx : calls[k].events = calls[first].events
           /\ Len(FramesOf(calls[first].events)) = 5
           /\ Len(DelaysOf(calls[first].events)) = 4
           /\ Len(calls[first].events) = 9
           /\ SelectSeq(Trace, NotBegin) = Repeat(calls[first].events, N)
      /\ frames = [frame_full  |-> frame_full,
                   frame_med   |-> frame_med,
                   frame_small |-> frame_small,
                   frame_off   |-> frame_off]

C4_Witness ==
  /\ pc = 0
  /\ Len(calls) >= 3
  /\ UpdateIdx = 1..Len(calls)

\* C5 (as stated): in every execution through initMatrix and
\* updateMatrixAnimation, matrix.begin() occurs exactly once and no
\* renderBitmap call occurs before it.
BeginOnceBeforeRenders(tr) ==
  /\ Len(SelectSeq(tr, IsBegin)) = 1
  /\ \A i \in 1..Len(tr) : IsRender(tr[i]) =>
       \E j \in 1..(i - 1) : IsBegin(tr[j])

C5_BeginExactlyOnceFirst ==
  /\ matrix.begun <= 1
  /\ (\E i \in 1..Len(Trace) : IsRender(Trace[i])) => BeginOnceBeforeRenders(Trace)

\* C5 (amended): matrix.begin() is called exactly once by each invocation of
\* initMatrix and never by updateMatrixAnimation; the module does not order
\* its entry points, so begin() has occurred exactly once and before every
\* renderBitmap exactly when the caller has invoked initMatrix once and
\* before any updateMatrixAnimation.
CallerInitOnceFirst ==
  /\ Cardinality(InitIdx) = 1
  /\ calls[1].fn = "initMatrix"

C5_BeginPerInit ==
  /\ matrix.begun = Cardinality(InitIdx)
  /\ Len(SelectSeq(Trace, IsBegin)) = Cardinality(InitIdx)
  /\ \A i \in InitIdx : calls[i].events = << [op |-> "begin"] >>
  /\ \A i \in UpdateIdx : SelectSeq(calls[i].events, IsBegin) = << >>
  /\ BeginOnceBeforeRenders(Trace) <=> CallerInitOnceFirst

C5_Witness ==
  /\ pc = 0
  /\ Len(calls) = MaxCalls
  /\ CallerInitOnceFirst
  /\ matrix.begun = 1
  /\ matrix.bitmap = "frame_off"

\* C6: each of the four frames has exactly 8 rows of exactly 12 cells and
\* every cell is 0 or 1, in every reachable state.
C6_FrameShape ==
  /\ DOMAIN frames = FrameNames
  /\ \A n \in FrameNames :
       /\ DOMAIN frames[n] = 1..8
       /\ \A r \in 1..8 :
            /\ DOMAIN frames[n][r] = 1..12
            /\ \A c \in 1..12 : frames[n][r][c] \in {0, 1}

C6_Witness ==
  /\ pc = 0
  /\ Len(calls) = MaxCalls
  /\ frames["frame_full"][2][2] = 1
  /\ frames["frame_med"][5][6] = 1
  /\ frames["frame_small"][5][6] = 1

\* C7: every one of the 96 cells of frame_off is 0, although its
\* initialiser lists a single element.
C7_OffAllZero ==
  /\ Cardinality({rc \in (DOMAIN frames["frame_off"]) \X (1..FrameCols) :
                    rc[2] \in DOMAIN frames["frame_off"][rc[1]]}) = 96
  /\ \A r \in DOMAIN frames["frame_off"] :
       \A c \in DOMAIN frames["frame_off"][r] : frames["frame_off"][r][c] = 0

C7_Witness ==
  /\ matrix.bitmap = "frame_off"
  /\ matrix.pixels = frames["frame_off"]
  /\ \A r \in 1..8 : \A c \in 1..12 : matrix.pixels[r][c] = 0

\* C8: frames are immutable: no step of initMatrix or updateMatrixAnimation
\* changes a cell of any of the four frames.
C8_FramesImmutable == [][frames' = frames]_vars

C8_Witness ==
  /\ pc = 0
  /\ Len(calls) = MaxCalls
  /\ InitIdx /= {}
  /\ UpdateIdx /= {}
  /\ frames["frame_med"] = frame_med
  /\ frames["frame_full"] = frame_full
  /\ frames["frame_small"] = frame_small
  /\ frames["frame_off"] = frame_off

\* C9: between beats the display is off: whenever an invocation of
\* updateMatrixAnimation has returned and the next has not started the frame
\* shown is off, and off is shown at no other time after the first render;
\* during the four delays of an invocation the frame shown is small, medium,
\* full, medium.
C9_OffBetweenBeats ==
  /\ (pc = 0 /\ UpdateIdx /= {}) => matrix.bitmap = "frame_off"
  /\ matrix.bitmap = "frame_off" => pc = 0
  /\ pc = 53 => matrix.bitmap = "frame_small"
  /\ pc = 55 => matrix.bitmap = "frame_med"
  /\ pc = 57 => matrix.bitmap = "frame_full"
  /\ pc = 59 => matrix.bitmap = "frame_med"
  /\ pc /= 0 => matrix.pixels /= frames["frame_off"]

C9_Witness ==
  /\ pc = 59
  /\ Cardinality(UpdateIdx) >= 2
  /\ matrix.bitmap = "frame_med"

\* C10: every renderBitmap call of updateMatrixAnimation passes 8 rows and
\* 12 columns, the declared dimensions of the frame passed with them;
\* initMatrix makes no renderBitmap call and performs no delay.
C10_RenderDimensions ==
  /\ \A i \in UpdateIdx : \A k \in 1..Len(calls[i].events) :
       LET e == calls[i].events[k] IN
         IsRender(e) =>
           /\ e.frame \in FrameNames
           /\ e.rows = 8
           /\ e.cols = 12
           /\ e.rows = FrameRows
           /\ e.cols = FrameCols
           /\ DOMAIN frames[e.frame] = 1..e.rows
           /\ \A r \in 1..e.rows : DOMAIN frames[e.frame][r] = 1..e.cols
  /\ \A i \in InitIdx : \A k \in 1..Len(calls[i].events) :
       ~IsRender(calls[i].events[k]) /\ ~IsDelay(calls[i].events[k])

C10_Witness ==
  /\ pc = 0
  /\ InitIdx /= {}
  /\ Len(calls) >= 2
  /\ calls[Len(calls)].fn = "updateMatrixAnimation"
  /\ Len(SelectSeq(calls[Len(calls)].events, IsRender)) = 5

====
